---------------------------- MODULE Spec2Model ----------------------------
(* A state-machine model of user_service.h / user_service.cpp.             *)
(*                                                                         *)
(* One thread calls UserService::authenticateUser, ::getUserToken,         *)
(* ::getSecretKey and the free functions processUserData, connectToService *)
(* and buildQuery, in any order, on one default-constructed UserService.   *)
(* Each function is modelled statement by statement (pc names the next     *)
(* statement).  C strings are sequences of one-character strings; the      *)
(* terminating NUL is not part of the sequence but is counted in every     *)
(* byte count.                                                             *)
(*                                                                         *)
(* Undefined behaviour is a nondeterministic choice:                       *)
(*   - a write past the end of a stack array either terminates the process *)
(*     (pc = "crashed"), or lands in memory nothing reads, or lands on the *)
(*     members of the UserService object;                                  *)
(*   - a read through a null or wild pointer either terminates the process *)
(*     or yields a garbage value;                                          *)
(*   - the read of the uninitialised `status` yields any int;              *)
(*   - flowing off the end of getSecretKey either terminates the process   *)
(*     or hands the caller a garbage string.                               *)
EXTENDS Integers, Sequences, FiniteSets, TLC

(***************************************************************************)
(* Program constants                                                       *)
(***************************************************************************)
\* char buffer[32]      (user_service.cpp:10)
BUFFER_SIZE == 32
\* char command[256]    (user_service.cpp:14)
COMMAND_SIZE == 256
\* new char[64]         (user_service.cpp:26)
TOKEN_SIZE == 64
\* char output[100]     (user_service.cpp:44)
OUTPUT_SIZE == 100

(***************************************************************************)
(* Bounds of the model                                                     *)
(***************************************************************************)
\* how far around each array size the input lengths range
MaxNear == 1
\* width of int, in bits (32 on the usual targets; scaled down so that
\* every value fits the model checker's integers)
IntBits == 16
\* width of size_t, in bits (64 on the usual targets; scaled down likewise,
\* and wider than int as there)
SizeBits == 29
\* number of heap addresses operator new[] chooses from
MaxHeap == 2
\* user ids range over -MaxUserId .. MaxUserId (and the two extremes of int)
MaxUserId == 1
\* longest userInput handed to buildQuery
MaxInputLen == 2

Min(a, b) == IF a < b THEN a ELSE b
Pow2(n) == 2 ^ n
INT_MAX == Pow2(IntBits - 1) - 1
INT_MIN == -Pow2(IntBits - 1)

(***************************************************************************)
(* Strings                                                                 *)
(***************************************************************************)
\* the format's literal text "auth_check " (user_service.cpp:15)
AuthCheckPrefix == <<"a","u","t","h","_","c","h","e","c","k"," ">>
\* the literal "admin123" (user_service.cpp:19)
AdminLiteral == <<"a","d","m","i","n","1","2","3">>
\* the literal "SuperSecret123!" (user_service.h:22)
SuperSecret == <<"S","u","p","e","r","S","e","c","r","e","t","1","2","3","!">>
\* the literal "SELECT * FROM users WHERE id = " (user_service.h:28)
SelectPrefix == <<"S","E","L","E","C","T"," ","*"," ","F","R","O","M"," ",
                  "u","s","e","r","s"," ","W","H","E","R","E"," ","i","d"," ",
                  "="," ">>
\* the format's literal text "token_" (user_service.cpp:27)
TokenPrefix == <<"t","o","k","e","n","_">>

Pad(n) == [i \in 1 .. n |-> "a"]

\* characters the shell or SQL treats specially, and two plain ones
MetaChars == {";", "'", "1", " "}

RECURSIVE StringsUpTo(_)
StringsUpTo(n) ==
  IF n = 0 THEN {<<>>}
  ELSE LET shorter == StringsUpTo(n - 1)
       IN shorter \cup {Append(s, c) : s \in shorter, c \in MetaChars}

\* lengths on both sides of every array size that a username is copied into
UsernameLens ==
  (0 .. MaxNear)
  \cup ((BUFFER_SIZE - 1 - MaxNear) .. (BUFFER_SIZE + MaxNear))
  \cup ((COMMAND_SIZE - Len(AuthCheckPrefix) - 1 - MaxNear)
          .. (COMMAND_SIZE - Len(AuthCheckPrefix) + MaxNear))

\* usernames: plain ones of every length, and ones that end in ';'
Usernames ==
  {Pad(n) : n \in UsernameLens}
  \cup {Append(Pad(n - 1), ";") : n \in UsernameLens \ {0}}

Passwords == {AdminLiteral, SuperSecret, <<>>, SubSeq(AdminLiteral, 1, 7)}

(***************************************************************************)
(* Pointers                                                                *)
(***************************************************************************)
\* values of a const char*: null, the address of either string literal of
\* the program, or an address that holds no string
NULL == "NULL"
LIT_ADMIN == "&SuperSecret123!"
LIT_CMP == "&admin123"
WILD == "WILD"
CharPtrs == {NULL, LIT_ADMIN, LIT_CMP, WILD}
ValidCharPtrs == {LIT_ADMIN, LIT_CMP}

\* the string a valid const char* points at
StrAt(p) == IF p = LIT_ADMIN THEN SuperSecret ELSE AdminLiteral

\* a value no statement of the program produced
GARBAGE == "GARBAGE"

VARIABLES
  pc,        \* the next statement of the running call, "idle" or "crashed"
  obj,       \* the UserService object: [adminPassword, db]
  obj0,      \* obj as it was when the running/last call was entered
  call,      \* the running/last call: [op |-> ..., <arguments>]
  buffer,    \* authenticateUser: the bytes in buffer[32] (NUL as "\\0")
  command,   \* authenticateUser: the C string formatted at command
  wr,        \* bytes written from the start of each local array by the call
  live,      \* heap: addresses allocated and not yet released
  token,     \* getUserToken: the local pointer, a heap address (0: null)
  tokenStr,  \* getUserToken: the C string at *token, GARBAGE once released
  deleted,   \* heap: addresses released by the running/last call
  status,    \* processUserData: [assigned, value] of the local `status`
  events,    \* what the running/last call did outside: printf, system, reads
  ret        \* what the last completed call returned ([kind |-> "none"] if nothing)

vars == <<pc, obj, obj0, call, buffer, command, wr, live, token, tokenStr,
          deleted, status, events, ret>>

NoWrites == [buffer |-> 0, command |-> 0, token |-> 0, output |-> 0]
NoRet == [kind |-> "none"]
Unassigned == [assigned |-> FALSE, value |-> GARBAGE]

\* UserService's default member initialisers: adminPassword points at the
\* literal; db has none and is never read
Init ==
  /\ pc = "idle"
  /\ obj = [adminPassword |-> LIT_ADMIN, db |-> GARBAGE]
  /\ obj0 = obj
  /\ call = [op |-> "none"]
  /\ buffer = <<>>
  /\ command = <<>>
  /\ wr = NoWrites
  /\ live = {}
  /\ token = 0
  /\ tokenStr = GARBAGE
  /\ deleted = {}
  /\ status = Unassigned
  /\ events = <<>>
  /\ ret = NoRet

\* entering a function: fresh locals, nothing done yet
Enter(c, first) ==
  /\ pc = "idle"
  /\ pc' = first
  /\ call' = c
  /\ obj0' = obj
  /\ buffer' = <<>>
  /\ command' = <<>>
  /\ wr' = NoWrites
  /\ token' = 0
  /\ tokenStr' = GARBAGE
  /\ deleted' = {}
  /\ status' = Unassigned
  /\ events' = <<>>
  /\ ret' = NoRet
  /\ UNCHANGED <<obj, live>>

(***************************************************************************)
(* Writes past the end of a stack array                                    *)
(***************************************************************************)
\* the object's members after out-of-bounds bytes landed on them
Clobbered(ptrs) == {[adminPassword |-> p, db |-> WILD] : p \in ptrs}

\* pointers a string copy can leave in adminPassword: the copied bytes are
\* non-zero but for the terminator, so one copy cannot zero a whole pointer;
\* the terminators of later, shorter copies can zero the rest
StringClobber == IF obj.adminPassword = LIT_ADMIN
                 THEN {LIT_CMP, WILD} ELSE CharPtrs

\* what follows a write of n bytes into an array of `size` bytes
AfterWrite(n, size, next, ptrs) ==
  IF n <= size
  THEN pc' = next /\ obj' = obj
  ELSE \/ pc' = "crashed" /\ obj' = obj
       \/ pc' = next /\ obj' = obj
       \/ pc' = next /\ obj' \in Clobbered(ptrs)

(***************************************************************************)
(* UserService::authenticateUser  (user_service.cpp:8-22)                  *)
(***************************************************************************)
authenticateUser_call ==
  \E u \in Usernames, p \in Passwords :
    Enter([op |-> "authenticateUser", username |-> u, password |-> p],
          "au_strcpy")

\* (mutant) a copy that stops at the end of the destination
StrcpyBytesBounded(src) == Min(Len(src) + 1, BUFFER_SIZE)

\* strcpy copies the string and its terminator, however long
StrcpyBytes(src) == Len(src) + 1

\* line 11: strcpy(buffer, username)
authenticateUser_strcpy ==
  /\ pc = "au_strcpy"
  /\ LET n == StrcpyBytes(call.username)
         bytes == Append(call.username, "\\0")
     IN /\ wr' = [wr EXCEPT !.buffer = n]
        /\ buffer' = SubSeq(bytes, 1, Min(n, BUFFER_SIZE))
        /\ AfterWrite(n, BUFFER_SIZE, "au_sprintf", StringClobber)
  /\ UNCHANGED <<obj0, call, command, live, token, tokenStr, deleted,
                 status, events, ret>>

\* the text sprintf produces for "auth_check %s"
FormatCommand(username) == AuthCheckPrefix \o username

\* line 15: sprintf(command, "auth_check %s", username)
authenticateUser_sprintf ==
  /\ pc = "au_sprintf"
  /\ LET text == FormatCommand(call.username)
     IN /\ command' = text
        /\ wr' = [wr EXCEPT !.command = Len(text) + 1]
        /\ AfterWrite(Len(text) + 1, COMMAND_SIZE, "au_system", StringClobber)
  /\ UNCHANGED <<obj0, call, buffer, live, token, tokenStr, deleted,
                 status, events, ret>>

\* exit statuses system() may report; the code discards them
ExitStatuses == {-1, 0, 1}

\* line 16: system(command)
authenticateUser_system ==
  /\ pc = "au_system"
  /\ \E st \in ExitStatuses :
       events' = Append(events, [kind |-> "system", text |-> command])
  /\ pc' = "au_strcmp"
  /\ UNCHANGED <<obj, obj0, call, buffer, command, wr, live, token, tokenStr,
                 deleted, status, ret>>

\* lines 19-22: the comparison with "admin123", the message, the return
authenticateUser_strcmp ==
  /\ pc = "au_strcmp"
  /\ events' = IF call.password = AdminLiteral
               THEN Append(events, [kind |-> "printf",
                                    text |-> "Admin access granted\n"])
               ELSE events
  /\ pc' = "idle"
  /\ UNCHANGED <<obj, obj0, call, buffer, command, wr, live, token, tokenStr,
                 deleted, status, ret>>

(***************************************************************************)
(* UserService::getUserToken  (user_service.cpp:25-30)                     *)
(***************************************************************************)
HeapAddrs == 1 .. MaxHeap
UserIds == (-MaxUserId .. MaxUserId) \cup {INT_MIN, INT_MAX}

DigitChars == <<"0","1","2","3","4","5","6","7","8","9">>

RECURSIVE Digits(_)
Digits(n) == IF n < 10 THEN <<DigitChars[n + 1]>>
             ELSE Append(Digits(n \div 10), DigitChars[(n % 10) + 1])

\* the text printf-style %d produces
IntToStr(n) == IF n < 0 THEN <<"-">> \o Digits(-n) ELSE Digits(n)

\* the text sprintf produces for "token_%d"
FormatToken(userId) == TokenPrefix \o IntToStr(userId)

getUserToken_call ==
  \E id \in UserIds : Enter([op |-> "getUserToken", userId |-> id], "gt_new")

\* line 26: new char[64] returns fresh storage or throws std::bad_alloc
getUserToken_new ==
  /\ pc = "gt_new"
  /\ \/ \E a \in HeapAddrs \ live :
          /\ live' = live \cup {a}
          /\ token' = a
          /\ pc' = "gt_sprintf"
          /\ ret' = ret
     \/ /\ pc' = "idle"
        /\ ret' = [kind |-> "throw", value |-> "std::bad_alloc"]
        /\ UNCHANGED <<live, token>>
  /\ UNCHANGED <<obj, obj0, call, buffer, command, wr, tokenStr, deleted,
                 status, events>>

\* line 27: sprintf(token, "token_%d", userId); the longest text for a
\* 32-bit int, "token_-2147483648", is 18 bytes with its terminator
getUserToken_sprintf ==
  /\ pc = "gt_sprintf"
  /\ LET text == FormatToken(call.userId)
     IN /\ tokenStr' = text
        /\ wr' = [wr EXCEPT !.token = Len(text) + 1]
        /\ pc' \in IF Len(text) + 1 <= TOKEN_SIZE
                   THEN {"gt_delete"} ELSE {"gt_delete", "crashed"}
  /\ UNCHANGED <<obj, obj0, call, buffer, command, live, token, deleted,
                 status, events, ret>>

\* (mutant) the storage is not released
getUserToken_keep ==
  /\ pc = "gt_delete"
  /\ pc' = "gt_return"
  /\ UNCHANGED <<obj, obj0, call, buffer, command, wr, live, token, tokenStr,
                 deleted, status, events, ret>>

\* line 28: delete[] token; the pointer keeps its value, the storage is gone
getUserToken_delete ==
  /\ pc = "gt_delete"
  /\ live' = live \ {token}
  /\ deleted' = deleted \cup {token}
  /\ tokenStr' = GARBAGE
  /\ pc' = "gt_return"
  /\ UNCHANGED <<obj, obj0, call, buffer, command, wr, token, status,
                 events, ret>>

\* line 29: return token
getUserToken_return ==
  /\ pc = "gt_return"
  /\ ret' = [kind |-> "value", value |-> token]
  /\ pc' = "idle"
  /\ UNCHANGED <<obj, obj0, call, buffer, command, wr, live, token, tokenStr,
                 deleted, status, events>>

(***************************************************************************)
(* UserService::getSecretKey  (user_service.cpp:33-39)                     *)
(***************************************************************************)
getSecretKey_call == Enter([op |-> "getSecretKey"], "sk_test")

\* line 34: if (adminPassword != nullptr)
getSecretKey_test ==
  /\ pc = "sk_test"
  /\ pc' = IF obj.adminPassword # NULL THEN "sk_return" ELSE "sk_end"
  /\ UNCHANGED <<obj, obj0, call, buffer, command, wr, live, token, tokenStr,
                 deleted, status, events, ret>>

\* line 36: return std::string(adminPassword); a wild pointer is read all
\* the same
getSecretKey_return ==
  /\ pc = "sk_return"
  /\ IF obj.adminPassword \in ValidCharPtrs
     THEN /\ ret' = [kind |-> "value", value |-> StrAt(obj.adminPassword),
                     line |-> 36]
          /\ pc' = "idle"
     ELSE \/ pc' = "crashed" /\ ret' = ret
          \/ /\ ret' = [kind |-> "garbage", line |-> 36]
             /\ pc' = "idle"
  /\ UNCHANGED <<obj, obj0, call, buffer, command, wr, live, token, tokenStr,
                 deleted, status, events>>

\* (mutant) a return statement closes the function
getSecretKey_endReturns ==
  /\ pc = "sk_end"
  /\ ret' = [kind |-> "value", value |-> <<>>, line |-> 38]
  /\ pc' = "idle"
  /\ UNCHANGED <<obj, obj0, call, buffer, command, wr, live, token, tokenStr,
                 deleted, status, events>>

\* lines 38-39: the closing brace is reached with no return statement run
getSecretKey_end ==
  /\ pc = "sk_end"
  /\ \/ pc' = "crashed" /\ ret' = ret
     \/ /\ ret' = [kind |-> "garbage", line |-> 0]
        /\ pc' = "idle"
  /\ UNCHANGED <<obj, obj0, call, buffer, command, wr, live, token, tokenStr,
                 deleted, status, events>>

(***************************************************************************)
(* processUserData  (user_service.cpp:42-52)                               *)
(***************************************************************************)
\* sizes of the object `data` points at
DataSizes == {0, OUTPUT_SIZE}

Lengths ==
  {INT_MIN, INT_MAX}
  \cup ((-1 - MaxNear) .. MaxNear)
  \cup ((OUTPUT_SIZE - MaxNear) .. (OUTPUT_SIZE + MaxNear))

\* values the read of an uninitialised int may yield
IndeterminateInts == {INT_MIN, -1, 0, 1, INT_MAX}

\* (mutant) a negative length copies nothing
ToSizeTClamped(n) == IF n < 0 THEN 0 ELSE n

\* the conversion of the int argument to memcpy's size_t parameter
ToSizeT(n) == n % Pow2(SizeBits)

\* (mutant) int status = 0;
StatusDeclZero == [assigned |-> TRUE, value |-> 0]

\* line 48: int status;
StatusDecl == Unassigned

\* the values a read of an int variable may yield
ReadInt(v) == IF v.assigned THEN {v.value} ELSE IndeterminateInts

processUserData_call ==
  \E size \in DataSizes, length \in Lengths :
    Enter([op |-> "processUserData", data |-> [size |-> size],
           length |-> length], "pd_memcpy")

\* line 45: memcpy(output, data, length) reads and writes (size_t)length
\* bytes; the copied bytes are arbitrary, zeros included
processUserData_memcpy ==
  /\ pc = "pd_memcpy"
  /\ LET n == ToSizeT(call.length)
     IN /\ wr' = [wr EXCEPT !.output = n]
        /\ IF n <= OUTPUT_SIZE /\ n > call.data.size
           THEN pc' \in {"pd_status", "crashed"} /\ obj' = obj
           ELSE AfterWrite(n, OUTPUT_SIZE, "pd_status", CharPtrs)
  /\ status' = StatusDecl
  /\ UNCHANGED <<obj0, call, buffer, command, live, token, tokenStr, deleted,
                 events, ret>>

\* lines 49-52: if (status == 0) printf("Success\n")
processUserData_status ==
  /\ pc = "pd_status"
  /\ \E v \in ReadInt(status) :
       events' = IF v = 0
                 THEN Append(events, [kind |-> "printf", text |-> "Success\n"])
                 ELSE events
  /\ pc' = "idle"
  /\ UNCHANGED <<obj, obj0, call, buffer, command, wr, live, token, tokenStr,
                 deleted, status, ret>>

(***************************************************************************)
(* connectToService  (user_service.cpp:55-61)                              *)
(***************************************************************************)
Ports == {0, 1, INT_MAX}
\* a ServiceConfig*: null, or the address of a config with some port
Configs == {[ptr |-> NULL]} \cup {[ptr |-> "&config", port |-> p] : p \in Ports}

connectToService_call ==
  \E c \in Configs : Enter([op |-> "connectToService", config |-> c], "cs_test")

\* (mutant) the null test returns
connectToService_testReturns ==
  /\ pc = "cs_test"
  /\ events' = IF call.config.ptr = NULL
               THEN Append(events, [kind |-> "printf",
                                    text |-> "Config is null\n"])
               ELSE events
  /\ pc' = IF call.config.ptr = NULL THEN "idle" ELSE "cs_port"
  /\ UNCHANGED <<obj, obj0, call, buffer, command, wr, live, token, tokenStr,
                 deleted, status, ret>>

\* lines 57-59: if (config == nullptr) printf("Config is null\n")
connectToService_test ==
  /\ pc = "cs_test"
  /\ events' = IF call.config.ptr = NULL
               THEN Append(events, [kind |-> "printf",
                                    text |-> "Config is null\n"])
               ELSE events
  /\ pc' = "cs_port"
  /\ UNCHANGED <<obj, obj0, call, buffer, command, wr, live, token, tokenStr,
                 deleted, status, ret>>

\* line 60: printf("Port: %d\n", config->port)
connectToService_port ==
  /\ pc = "cs_port"
  /\ LET read == Append(events, [kind |-> "read", text |-> "config->port"])
     IN IF call.config.ptr # NULL
        THEN /\ events' = Append(read, [kind |-> "printf", text |-> "Port: %d\n",
                                        arg |-> call.config.port])
             /\ pc' = "idle"
        ELSE \/ events' = read /\ pc' = "crashed"
             \/ /\ events' = Append(read, [kind |-> "printf",
                                           text |-> "Port: %d\n"])
                /\ pc' = "idle"
  /\ UNCHANGED <<obj, obj0, call, buffer, command, wr, live, token, tokenStr,
                 deleted, status, ret>>

(***************************************************************************)
(* buildQuery  (user_service.h:27-29)                                      *)
(***************************************************************************)
UserInputs == StringsUpTo(MaxInputLen)

RECURSIVE EscapeQuotes(_)
EscapeQuotes(str) ==
  IF str = <<>> THEN <<>>
  ELSE (IF Head(str) = "'" THEN <<"'", "'">> ELSE <<Head(str)>>)
       \o EscapeQuotes(Tail(str))

\* (mutant) the input's quotes are doubled
BuildQueryEscaped(userInput) == SelectPrefix \o EscapeQuotes(userInput)

\* "SELECT * FROM users WHERE id = " + userInput
BuildQuery(userInput) == SelectPrefix \o userInput

buildQuery_call ==
  \E u \in UserInputs : Enter([op |-> "buildQuery", userInput |-> u], "bq_return")

\* line 28: return ...
buildQuery_return ==
  /\ pc = "bq_return"
  /\ ret' = [kind |-> "value", value |-> BuildQuery(call.userInput)]
  /\ pc' = "idle"
  /\ UNCHANGED <<obj, obj0, call, buffer, command, wr, live, token, tokenStr,
                 deleted, status, events>>

(***************************************************************************)
(* The specifications                                                      *)
(***************************************************************************)
\* the three member functions of UserService
NextUserService ==
  \/ authenticateUser_call
  \/ authenticateUser_strcpy
  \/ authenticateUser_sprintf
  \/ authenticateUser_system
  \/ authenticateUser_strcmp
  \/ getUserToken_call
  \/ getUserToken_new
  \/ getUserToken_sprintf
  \/ getUserToken_delete
  \/ getUserToken_return
  \/ getSecretKey_call
  \/ getSecretKey_test
  \/ getSecretKey_return
  \/ getSecretKey_end

\* the free functions
NextFree ==
  \/ processUserData_call
  \/ processUserData_memcpy
  \/ processUserData_status
  \/ connectToService_call
  \/ connectToService_test
  \/ connectToService_port
  \/ buildQuery_call
  \/ buildQuery_return

Next == NextUserService \/ NextFree

\* every function of the two files
Spec == Init /\ [][Next]_vars

\* calls of UserService's member functions only
SpecUserService == Init /\ [][NextUserService]_vars
(***************************************************************************)
(* The claims                                                              *)
(***************************************************************************)
\* the running/last call is a call of op that returned or was terminated
Ended(op) == call.op = op /\ pc \in {"idle", "crashed"}
\* the last call is a call of op that returned to its caller
Returned(op) == call.op = op /\ pc = "idle"
\* the places in events of an event of this kind and text
EventsAt(kind, text) ==
  {i \in DOMAIN events : events[i].kind = kind /\ events[i].text = text}

\* C1: every call of getUserToken that returns has released its allocation
\* with delete[] before the return statement, and returns the address of
\* that released allocation: not a live allocation, not null.
C1_ReturnsFreedMemory ==
  /\ (call.op = "getUserToken" /\ pc = "gt_return")
       => (token \in deleted /\ token \notin live)
  /\ (Returned("getUserToken") /\ ret.kind = "value")
       => /\ ret.value = token
          /\ ret.value \in HeapAddrs
          /\ ret.value # 0
          /\ ret.value \in deleted
          /\ ret.value \notin live

\* C1: a call returned the address it had released.
C1_Witness ==
  /\ Returned("getUserToken")
  /\ ret.kind = "value"
  /\ ret.value \in deleted

\* C2: authenticateUser's first statement copies username into buffer with
\* no test of its length: a username of 32 characters or more is written
\* past the end of the 32 bytes, one of 31 or fewer stays within them.
C2_StrcpyUnchecked ==
  (call.op = "authenticateUser" /\ pc # "au_strcpy")
    => LET len == Len(call.username)
       IN /\ wr.buffer > 0
          /\ len >= BUFFER_SIZE => wr.buffer > BUFFER_SIZE
          /\ len <= BUFFER_SIZE - 1 => wr.buffer <= BUFFER_SIZE
          /\ \A i \in DOMAIN buffer :
               buffer[i] = IF i <= len THEN call.username[i] ELSE "\\0"

\* C2: a username of exactly 32 characters was copied past the end.
C2_Witness ==
  /\ call.op = "authenticateUser"
  /\ Len(call.username) = BUFFER_SIZE
  /\ wr.buffer > BUFFER_SIZE

\* C3: every call of authenticateUser, whatever the password, hands the
\* shell the command "auth_check " followed by username unchanged.
C3_ShellOnEveryCall ==
  Ended("authenticateUser")
    => EventsAt("system", AuthCheckPrefix \o call.username) # {}

\* every command that does reach the shell is "auth_check " followed by
\* username unchanged
ShellCommandsVerbatim ==
  \A i \in DOMAIN events :
    events[i].kind = "system"
      => events[i].text = AuthCheckPrefix \o call.username

\* C4: connectToService reads config->port on every path; with a null
\* config it prints "Config is null" and then reads config->port all the
\* same.
C4_UncheckedDereference ==
  Ended("connectToService")
    => LET reads == EventsAt("read", "config->port")
           msgs == EventsAt("printf", "Config is null\n")
       IN IF call.config.ptr = NULL
          THEN msgs = {1} /\ reads = {2}
          ELSE msgs = {} /\ reads = {1}

\* C4: a call with a null config printed the message and went on to the read.
C4_Witness ==
  /\ Ended("connectToService")
  /\ call.config.ptr = NULL
  /\ EventsAt("read", "config->port") = {2}

\* C5: when adminPassword is not null, getSecretKey never reaches the end of
\* the function: it returns from its return statement, and what it returns
\* is the string adminPassword points at; when adminPassword is null,
\* control reaches the end of the function and no return statement has run.
C5_MissingReturn ==
  call.op = "getSecretKey"
    => /\ obj.adminPassword # NULL
            => /\ pc # "sk_end"
               /\ pc = "idle" => ret.line = 36
       /\ obj.adminPassword \in ValidCharPtrs
            => /\ pc # "crashed"
               /\ pc = "idle" => ret = [kind |-> "value",
                                        value |-> StrAt(obj.adminPassword),
                                        line |-> 36]
       /\ obj.adminPassword = NULL
            => /\ pc # "sk_return"
               /\ pc = "idle" => (ret.kind = "garbage" /\ ret.line = 0)

\* C5: a call with a null adminPassword came back without a return statement.
C5_Witness ==
  /\ Returned("getSecretKey")
  /\ obj.adminPassword = NULL
  /\ ret.line = 0

\* C6: processUserData copies (size_t)length bytes into output whatever
\* length is: the copy stays within the 100 bytes exactly when
\* 0 <= length <= 100; a negative length becomes length + 2^w, more than 100.
C6_MemcpyUnchecked ==
  (call.op = "processUserData" /\ pc # "pd_memcpy")
    => LET len == call.length
           n == wr.output
       IN /\ (0 <= len /\ len <= OUTPUT_SIZE) <=> n <= OUTPUT_SIZE
          /\ len >= 0 => n = len
          /\ len < 0 => (n = len + Pow2(SizeBits) /\ n > OUTPUT_SIZE)

\* C6: a negative length was copied as more than 100 bytes.
C6_Witness ==
  /\ call.op = "processUserData"
  /\ pc # "pd_memcpy"
  /\ call.length < 0
  /\ wr.output > OUTPUT_SIZE

\* C7: when processUserData compares status, status has never been
\* assigned, and for the arguments at hand both a step that prints
\* "Success" and a step that prints nothing are possible.
C7_StatusUndetermined ==
  pc = "pd_status"
    => /\ ~status.assigned
       /\ ENABLED (processUserData_status /\ events' # events)
       /\ ENABLED (processUserData_status /\ events' = events)

\* C7: a call stands at the comparison with status unassigned.
C7_Witness ==
  /\ pc = "pd_status"
  /\ ~status.assigned
  /\ call.length \in 0 .. OUTPUT_SIZE

\* C8: for every userInput, the empty one included, buildQuery returns
\* "SELECT * FROM users WHERE id = " followed by userInput unchanged.
C8_BuildQueryVerbatim ==
  Returned("buildQuery")
    => /\ ret.kind = "value"
       /\ Len(ret.value) = Len(SelectPrefix) + Len(call.userInput)
       /\ SubSeq(ret.value, 1, Len(SelectPrefix)) = SelectPrefix
       /\ \A i \in DOMAIN call.userInput :
            ret.value[Len(SelectPrefix) + i] = call.userInput[i]

\* C8: a userInput holding a quote came back in a query.
C8_Witness ==
  /\ Returned("buildQuery")
  /\ \E i \in DOMAIN call.userInput : call.userInput[i] = "'"
  /\ Len(ret.value) = Len(SelectPrefix) + Len(call.userInput)

\* C9: under calls of authenticateUser, getUserToken and getSecretKey alone,
\* adminPassword always points at "SuperSecret123!", the end of getSecretKey
\* is never reached and every getSecretKey returns "SuperSecret123!".
C9_AdminPasswordInvariant ==
  /\ obj.adminPassword = LIT_ADMIN
  /\ pc # "sk_end"
  /\ Returned("getSecretKey")
       => ret = [kind |-> "value", value |-> SuperSecret, line |-> 36]

\* a call of authenticateUser that wrote within both arrays returned, ran
\* the shell command, then printed "Admin access granted" exactly when
\* password is "admin123", and changed no member of the object
GrantIffLiteralWithinBounds ==
  (Ended("authenticateUser") /\ wr.buffer <= BUFFER_SIZE
                             /\ wr.command <= COMMAND_SIZE)
    => LET grants == EventsAt("printf", "Admin access granted\n")
           shells == EventsAt("system", AuthCheckPrefix \o call.username)
       IN /\ pc = "idle"
          /\ shells = {1}
          /\ grants = IF call.password = AdminLiteral THEN {2} ELSE {}
          /\ obj = obj0

\* C10: a call of authenticateUser prints "Admin access granted" exactly
\* when password is "admin123", after the shell command has run, and
\* changes no member of the object.
C10_AdminIffLiteral ==
  Ended("authenticateUser")
    => LET grants == EventsAt("printf", "Admin access granted\n")
           shells == EventsAt("system", command)
       IN /\ grants # {} <=> call.password = AdminLiteral
          /\ \A g \in grants : \E c \in shells : c < g
          /\ obj = obj0
=============================================================================
